---------------------------- MODULE Spec2Model ----------------------------
(***************************************************************************)
(* The testimonials carousel of src/js/main.js (class TestimonialsCarousel *)
(* and the global entry points changeTestimonial / currentTestimonial),    *)
(* together with the part of page start-up that decides its autoplay flag. *)
(*                                                                         *)
(* The browser is modelled as far as the carousel reads or drives it: the  *)
(* 'active' class of every card and dot, the set of interval timers the    *)
(* page has created and not cleared, and the events the registered         *)
(* listeners can receive.                                                  *)
(*                                                                         *)
(* The second half models the page around it: NavigationManager (mobile    *)
(* menu, throttled scroll, debounced resize), ModalManager, FormManager    *)
(* and FAQAccordion, which share STATE and document.body.style.overflow.   *)
(***************************************************************************)
EXTENDS Integers, Sequences, FiniteSets

(* ---------------------------------------------------------------------- *)
(* Bounds of the model                                                     *)
(* ---------------------------------------------------------------------- *)

\* Largest number of .testimonial-card / .dot elements of a page.
MaxCards == 3

\* Largest number of setInterval calls of one run (handles are 1..MaxHandles).
MaxHandles == 4

\* clientX values a touch can report.
Coords == {0, 50, 51, 100}

\* Arguments the inline handlers pass to currentTestimonial(index).
GoToArgs == 0 .. (MaxCards + 2)

\* Arguments the inline handlers pass to changeTestimonial(direction).
Directions == {0 - 1, 0, 1}

\* Largest number of form elements of a page.
MaxForms == 2

\* Largest number of resize events of one run (timeout ids are 1..MaxResizes).
MaxResizes == 3

\* Largest number of submission timeouts pending at once.
MaxPending == 2

\* Number of .faq-item elements of a page.
MaxFaqs == 3

\* The .modal elements of a page, by id, and this.activeModal = null.
Modals == {"quickViewModal", "successModal"}
NoModal == "null"

Forms == 1 .. MaxForms
Faqs == 1 .. MaxFaqs

\* The width below which the layout is the mobile one.
DesktopWidth == 768

\* Values of window.innerWidth.
Widths == {767, 768}

\* CONFIG.scrollThreshold
ScrollThreshold == 100

\* Values of window.pageYOffset.
ScrollYs == {0, 100, 101, 200}

\* A form control: its required attribute, its type, and its value as the
\* validation sees it: "" is blank after trim(), "ok" matches the pattern of
\* the control's type, "bad" is not blank and does not match it.
FieldTypes == {"text", "email", "tel"}
FieldValues == {"", "bad", "ok"}
Fields == [ required : BOOLEAN, type : FieldTypes, value : FieldValues ]

\* The controls of a form when it is submitted: one control, or a required
\* text control, blank or not, followed by any control.
FormContents ==
    { << f >> : f \in Fields } \cup
    { << [ required |-> TRUE, type |-> "text", value |-> v ], g >> :
          v \in {"", "ok"}, g \in Fields }

(* ---------------------------------------------------------------------- *)
(* JavaScript numbers, as far as the carousel computes with them           *)
(* ---------------------------------------------------------------------- *)

\* The value of x % 0, and of any arithmetic on it.
NaN == -1000

\* this.autoplayTimer = null
Null == 0

JsAdd(a, b) == IF a = NaN \/ b = NaN THEN NaN ELSE a + b

\* a % n of JavaScript: NaN for n = 0, otherwise the sign of the dividend.
JsMod(a, n) ==
    IF a = NaN \/ n = NaN \/ n = 0 THEN NaN
    ELSE IF a >= 0 THEN a % n ELSE 0 - ((0 - a) % n)

\* a < b and a >= b of JavaScript: both false when an operand is NaN.
JsLt(a, b) == a # NaN /\ b # NaN /\ a < b
JsGe(a, b) == a # NaN /\ b # NaN /\ a >= b

\* Math.abs
Abs(x) == IF x < 0 THEN 0 - x ELSE x

VARIABLES
    pc,               \* position of page start-up: "load", "components", "ready"
    reducedMotion,    \* matchMedia('(prefers-reduced-motion: reduce)').matches
    configAutoplay,   \* CONFIG.testimonialAutoplay
    numCards,         \* this.cards.length
    numDots,          \* this.dots.length
    cardsActive,      \* indices of the cards whose classList has 'active'
    dotsActive,       \* indices of the dots whose classList has 'active'
    currentIndex,     \* this.currentIndex
    isAutoplay,       \* this.isAutoplay
    autoplayTimer,    \* this.autoplayTimer: Null or an interval handle
    liveTimers,       \* handles of the intervals created and not cleared
    nextHandle,       \* the handle the next setInterval returns
    listening,        \* setupEventListeners has run
    hovering,         \* the pointer is over the container
    touchStartX,      \* startX of setupTouchEvents' closure
    onlyManual,       \* since construction only next/previous/goTo(valid) ran
    last              \* what the last handler did (history)

VARIABLES
    isMobileMenuOpen, \* STATE.isMobileMenuOpen
    navActive,        \* navToggle and navMenu carry 'active'
    bodyOverflow,     \* document.body.style.overflow: "" or "hidden"
    modalsShown,      \* ids of the modals whose classList has 'show'
    activeModal,      \* ModalManager.activeModal: NoModal or a modal's id
    isFormSubmitting, \* STATE.isFormSubmitting
    completions,      \* forms of the pending timeouts of handleFormSubmission
    btnDisabled,      \* forms whose submit button is disabled
    innerWidth,       \* window.innerWidth
    timeout,          \* timeout of debounce's closure: Null or a timeout id
    pendingTimeouts,  \* timeouts debounce has set and that are not cleared
    nextTimeoutId,    \* the id the next setTimeout of debounce returns
    burst,            \* calls and runs of the debounced function (history)
    pageLast          \* what the last page handler did (history)

VARIABLES
    scrollY,          \* window.pageYOffset
    navbarScrolled,   \* navbar carries 'scrolled'
    inThrottle,       \* inThrottle of throttle's closure
    faqActive,        \* the .faq-item elements whose classList has 'active'
    faqScrolls,       \* items of the pending timeouts of toggleFAQ
    faqLast           \* what the last toggleFAQ did (history)

carouselVars ==
    << pc, reducedMotion, configAutoplay, numCards, numDots, cardsActive,
       dotsActive, currentIndex, isAutoplay, autoplayTimer, liveTimers,
       nextHandle, listening, hovering, touchStartX, onlyManual, last >>

pageVars ==
    << isMobileMenuOpen, navActive, bodyOverflow, modalsShown, activeModal,
       isFormSubmitting, completions, btnDisabled, innerWidth, timeout,
       pendingTimeouts, nextTimeoutId, burst, pageLast >>

scrollVars ==
    << scrollY, navbarScrolled, inThrottle, faqActive, faqScrolls, faqLast >>

vars == << carouselVars, pageVars, scrollVars >>

(* ---------------------------------------------------------------------- *)
(* The carousel object as a record, and its methods as functions on it     *)
(* ---------------------------------------------------------------------- *)

\* The fields a method reads or writes, with the log of the run of one handler:
\* calls = the navigation methods entered, renders = the indices rendered.
Self ==
    [ currentIndex  |-> currentIndex,
      isAutoplay    |-> isAutoplay,
      autoplayTimer |-> autoplayTimer,
      liveTimers    |-> liveTimers,
      nextHandle    |-> nextHandle,
      cardsActive   |-> cardsActive,
      dotsActive    |-> dotsActive,
      calls         |-> << >>,
      renders       |-> << >> ]

Cards == 0 .. (numCards - 1)
Dots  == 0 .. (numDots - 1)

\* OutOfRange without the upper bound.
OutOfRangeLowOnly(index) == JsLt(index, 0)

\* OutOfRange with > for >= in the upper bound.
OutOfRangeOffByOne(index) == JsLt(index, 0) \/ JsGe(index, numCards + 1)

\* index < 0 || index >= this.cards.length
OutOfRange(index) == JsLt(index, 0) \/ JsGe(index, numCards)

\* An integer goTo argument the carousel accepts.
ValidIndex(index) == index \in Cards

\* ShowTestimonial without the two loops that remove 'active'.
ShowTestimonialNoClear(s, index) ==
    IF JsLt(index, 0) \/ JsGe(index, numCards) THEN s
    ELSE [ s EXCEPT
             !.cardsActive  = IF index \in Cards THEN @ \cup {index} ELSE @,
             !.dotsActive   = IF index \in Dots THEN @ \cup {index} ELSE @,
             !.currentIndex = index,
             !.renders      = Append(@, index) ]

\* ShowTestimonial returning early when the index is already the current one.
ShowTestimonialSkipSame(s, index) ==
    IF JsLt(index, 0) \/ JsGe(index, numCards) \/ index = s.currentIndex THEN s
    ELSE [ s EXCEPT
             !.cardsActive  = IF index \in Cards THEN {index} ELSE {},
             !.dotsActive   = IF index \in Dots THEN {index} ELSE {},
             !.currentIndex = index,
             !.renders      = Append(@, index) ]

ShowTestimonial(s, index) ==
    IF OutOfRange(index) THEN s
    ELSE [ s EXCEPT
             !.cardsActive  = IF index \in Cards THEN {index} ELSE {},
             !.dotsActive   = IF index \in Dots THEN {index} ELSE {},
             !.currentIndex = index,
             !.renders      = Append(@, index) ]

\* StartAutoplay without the test of this.isAutoplay.
StartAutoplayAlways(s) ==
    [ s EXCEPT
        !.autoplayTimer = s.nextHandle,
        !.liveTimers    = @ \cup {s.nextHandle},
        !.nextHandle    = @ + 1 ]

StartAutoplay(s) ==
    IF ~s.isAutoplay THEN s
    ELSE [ s EXCEPT
             !.autoplayTimer = s.nextHandle,
             !.liveTimers    = @ \cup {s.nextHandle},
             !.nextHandle    = @ + 1 ]

PauseAutoplay(s) ==
    IF s.autoplayTimer # Null
    THEN [ s EXCEPT
             !.liveTimers    = @ \ {s.autoplayTimer},
             !.autoplayTimer = Null ]
    ELSE s

\* ResetAutoplay without the startAutoplay() call.
ResetAutoplayNoStart(s) == PauseAutoplay(s)

\* ResetAutoplay without the pauseAutoplay() call.
ResetAutoplayNoPause(s) == StartAutoplay(s)

ResetAutoplay(s) == StartAutoplay(PauseAutoplay(s))

Entered(s, name, arg) == [ s EXCEPT !.calls = Append(@, << name, arg >>) ]

\* NextIndex without the wrap-around.
NextIndexNoWrap(i) == JsAdd(i, 1)

NextIndex(i) == JsMod(JsAdd(i, 1), numCards)

PrevIndex(i) == JsMod(JsAdd(JsAdd(i, 0 - 1), numCards), numCards)

\* NextTestimonial without the resetAutoplay() call.
NextTestimonialNoReset(s) ==
    ShowTestimonial(Entered(s, "next", 0), NextIndex(s.currentIndex))

NextTestimonial(s) ==
    ResetAutoplay(ShowTestimonial(Entered(s, "next", 0), NextIndex(s.currentIndex)))

PreviousTestimonial(s) ==
    ResetAutoplay(ShowTestimonial(Entered(s, "previous", 0), PrevIndex(s.currentIndex)))

GoToTestimonial(s, index) ==
    ResetAutoplay(ShowTestimonial(Entered(s, "goTo", index), index))

SwipeThreshold == 50

\* HandleSwipe with >= for > in the threshold test.
HandleSwipeInclusive(s, startX, endX) ==
    LET diff == startX - endX IN
    IF Abs(diff) >= SwipeThreshold
    THEN IF diff > 0 THEN NextTestimonial(s) ELSE PreviousTestimonial(s)
    ELSE s

\* HandleSwipe with the two directions exchanged.
HandleSwipeSwapped(s, startX, endX) ==
    LET diff == startX - endX IN
    IF Abs(diff) > SwipeThreshold
    THEN IF diff > 0 THEN PreviousTestimonial(s) ELSE NextTestimonial(s)
    ELSE s

HandleSwipe(s, startX, endX) ==
    LET diff == startX - endX IN
    IF Abs(diff) > SwipeThreshold
    THEN IF diff > 0 THEN NextTestimonial(s) ELSE PreviousTestimonial(s)
    ELSE s

(* ---------------------------------------------------------------------- *)
(* The state before the page's script runs                                 *)
(* ---------------------------------------------------------------------- *)

\* STATE, ModalManager's constructor and the closures of debounce, before any
\* event: nothing open, nothing shown, nothing pending.
PageStart ==
    /\ isMobileMenuOpen = FALSE
    /\ navActive = FALSE
    /\ bodyOverflow = ""
    /\ modalsShown = {}
    /\ activeModal = NoModal
    /\ isFormSubmitting = FALSE
    /\ completions = << >>
    /\ btnDisabled = {}
    /\ timeout = Null
    /\ pendingTimeouts = {}
    /\ nextTimeoutId = 1
    /\ burst = [ len |-> 0, runs |-> 0, first |-> 0, args |-> 0 ]
    /\ pageLast = [ op |-> "none", arg |-> 0, valid |-> FALSE, busy |-> FALSE ]

\* NavigationManager.init has called handleScroll() once; throttle's closure
\* and FAQAccordion have done nothing yet.
ScrollStart ==
    /\ navbarScrolled = (scrollY > ScrollThreshold)
    /\ inThrottle = FALSE
    /\ faqScrolls = {}
    /\ faqLast = [ op |-> "none", item |-> 0, wasActive |-> FALSE, before |-> {} ]

NoOp ==
    [ op |-> "none", arg |-> 0, calls |-> << >>, renders |-> << >>,
      from |-> 0, timerBefore |-> Null, liveBefore |-> {},
      cardsBefore |-> {}, dotsBefore |-> {}, repeat |-> FALSE ]

\* The markup fixes the number of cards and dots and which of them carry
\* 'active'; the user agent fixes the reduced-motion preference.
Init ==
    /\ pc = "load"
    /\ reducedMotion \in BOOLEAN
    /\ configAutoplay = TRUE
    /\ numCards \in 0 .. MaxCards
    /\ numDots \in 0 .. MaxCards
    /\ cardsActive \in SUBSET (0 .. (numCards - 1))
    /\ dotsActive \in SUBSET (0 .. (numDots - 1))
    /\ currentIndex = 0
    /\ isAutoplay = FALSE
    /\ autoplayTimer = Null
    /\ liveTimers = {}
    /\ nextHandle = 1
    /\ listening = FALSE
    /\ hovering = FALSE
    /\ touchStartX = 0
    /\ onlyManual = FALSE
    /\ last = NoOp
    /\ PageStart /\ innerWidth = DesktopWidth
    /\ scrollY = 0 /\ faqActive = {} /\ ScrollStart

(* ---------------------------------------------------------------------- *)
(* Handlers                                                                *)
(* ---------------------------------------------------------------------- *)

\* The end of a handler that ran the carousel from Self to s: the fields are
\* written back and the handler's run is recorded (manual = the new value of
\* onlyManual).  A run that would create
\* more than MaxHandles intervals is outside the model.
Commit(op, arg, s, manual) ==
    /\ s.nextHandle <= MaxHandles + 1
    /\ currentIndex' = s.currentIndex
    /\ isAutoplay' = s.isAutoplay
    /\ autoplayTimer' = s.autoplayTimer
    /\ liveTimers' = s.liveTimers
    /\ nextHandle' = s.nextHandle
    /\ cardsActive' = s.cardsActive
    /\ dotsActive' = s.dotsActive
    /\ onlyManual' = manual
    /\ last' = [ op |-> op, arg |-> arg, calls |-> s.calls, renders |-> s.renders,
                 from |-> currentIndex, timerBefore |-> autoplayTimer,
                 liveBefore |-> liveTimers, cardsBefore |-> cardsActive,
                 dotsBefore |-> dotsActive,
                 repeat |-> (s.calls # << >> /\ s.calls = last.calls) ]
    /\ UNCHANGED << pageVars, scrollVars >>

\* respectReducedMotion without the assignment to CONFIG.testimonialAutoplay.
RespectReducedMotionNoClear ==
    /\ pc = "load"
    /\ pc' = "components"
    /\ UNCHANGED << reducedMotion, configAutoplay, numCards, numDots,
                    cardsActive, dotsActive, currentIndex, isAutoplay,
                    autoplayTimer, liveTimers, nextHandle, listening, hovering,
                    touchStartX, onlyManual, last >>
    /\ UNCHANGED << pageVars, scrollVars >>

\* AccessibilityManager.respectReducedMotion, run by the constructor of
\* AccessibilityManager before the page-specific components are built.
RespectReducedMotion ==
    /\ pc = "load"
    /\ pc' = "components"
    /\ configAutoplay' = IF reducedMotion THEN FALSE ELSE configAutoplay
    /\ UNCHANGED << reducedMotion, numCards, numDots, cardsActive, dotsActive,
                    currentIndex, isAutoplay, autoplayTimer, liveTimers,
                    nextHandle, listening, hovering, touchStartX, onlyManual,
                    last >>
    /\ UNCHANGED << pageVars, scrollVars >>

\* init() without the showTestimonial(0) call.
InitCarouselNoRender(s) ==
    IF numCards = 0 THEN s ELSE StartAutoplay(s)

\* init(): nothing when there are no cards; otherwise the listeners, the
\* first interval and the first render.
InitCarousel(s) ==
    IF numCards = 0 THEN s ELSE ShowTestimonial(StartAutoplay(s), 0)

\* new TestimonialsCarousel(): the constructor, which ends in init().
Construct ==
    /\ pc = "components"
    /\ pc' = "ready"
    /\ listening' = (numCards # 0)
    /\ LET s0 == [ Self EXCEPT !.currentIndex = 0,
                               !.isAutoplay = configAutoplay,
                               !.autoplayTimer = Null ]
           s1 == InitCarousel(s0)
       IN  Commit("construct", 0, s1, TRUE)
    /\ UNCHANGED << reducedMotion, configAutoplay, numCards, numDots, hovering,
                    touchStartX >>

Frame == UNCHANGED << pc, reducedMotion, configAutoplay, numCards, numDots,
                      listening, hovering, touchStartX >>

\* click on .next-btn
ClickNext ==
    /\ pc = "ready" /\ listening
    /\ Commit("clickNext", 0, NextTestimonial(Self), onlyManual)
    /\ Frame

\* click on .prev-btn
ClickPrev ==
    /\ pc = "ready" /\ listening
    /\ Commit("clickPrev", 0, PreviousTestimonial(Self), onlyManual)
    /\ Frame

\* click on the dot at position index
ClickDot(index) ==
    /\ pc = "ready" /\ listening
    /\ index \in Dots
    /\ Commit("clickDot", index, GoToTestimonial(Self, index),
              onlyManual /\ ValidIndex(index))
    /\ Frame

\* the global changeTestimonial(direction)
ChangeTestimonial(direction) ==
    /\ pc = "ready"
    /\ Commit("changeTestimonial", direction,
              IF direction > 0 THEN NextTestimonial(Self)
                               ELSE PreviousTestimonial(Self),
              onlyManual)
    /\ Frame

\* the global currentTestimonial(index)
CurrentTestimonial(index) ==
    /\ pc = "ready"
    /\ Commit("currentTestimonial", index, GoToTestimonial(Self, index - 1),
              onlyManual /\ ValidIndex(index - 1))
    /\ Frame

\* mouseenter on the container
MouseEnter ==
    /\ pc = "ready" /\ listening
    /\ ~hovering
    /\ hovering' = TRUE
    /\ Commit("mouseenter", 0, PauseAutoplay(Self), FALSE)
    /\ UNCHANGED << pc, reducedMotion, configAutoplay, numCards, numDots,
                    listening, touchStartX >>

\* mouseleave on the container
MouseLeave ==
    /\ pc = "ready" /\ listening
    /\ hovering
    /\ hovering' = FALSE
    /\ Commit("mouseleave", 0, StartAutoplay(Self), FALSE)
    /\ UNCHANGED << pc, reducedMotion, configAutoplay, numCards, numDots,
                    listening, touchStartX >>

\* touchstart on the container
TouchStart(x) ==
    /\ pc = "ready" /\ listening
    /\ touchStartX' = x
    /\ Commit("touchstart", x, Self, FALSE)
    /\ UNCHANGED << pc, reducedMotion, configAutoplay, numCards, numDots,
                    listening, hovering >>

\* touchend on the container
TouchEnd(x) ==
    /\ pc = "ready" /\ listening
    /\ Commit("touchend", touchStartX - x, HandleSwipe(Self, touchStartX, x), FALSE)
    /\ Frame

\* the callback of a live interval
TimerTick(h) ==
    /\ pc = "ready"
    /\ h \in liveTimers
    /\ Commit("tick", h, NextTestimonial(Self), FALSE)
    /\ Frame

\* The handle setInterval returns next when the user agent reuses the handles
\* of cleared intervals: the first one from h on, in the cycle 1 .. MaxHandles,
\* that no live interval has.
NextFree(live, h) ==
    LET free == { x \in 1 .. MaxHandles : x \notin live }
        up   == { x \in free : x >= h }
        low(S) == CHOOSE x \in S : \A y \in S : x <= y
    IN  IF up # {} THEN low(up) ELSE low(free)

\* The callback of a live interval on a page that receives no input, where
\* the run is unbounded and cleared handles are reused.
AutoTick(h) ==
    /\ pc = "ready"
    /\ h \in liveTimers
    /\ \E s \in { NextTestimonial(Self) } :
           /\ \E x \in 1 .. MaxHandles : x \notin s.liveTimers
           /\ \E t \in { [ s EXCEPT !.nextHandle = NextFree(s.liveTimers, @) ] } :
                  Commit("tick", h, t, FALSE)
    /\ Frame

Next ==
    \/ RespectReducedMotion
    \/ Construct
    \/ ClickNext
    \/ ClickPrev
    \/ \E index \in 0 .. (MaxCards - 1) : ClickDot(index)
    \/ \E direction \in Directions : ChangeTestimonial(direction)
    \/ \E index \in GoToArgs : CurrentTestimonial(index)
    \/ MouseEnter
    \/ MouseLeave
    \/ \E x \in Coords : TouchStart(x)
    \/ \E x \in Coords : TouchEnd(x)
    \/ \E h \in 1 .. MaxHandles : TimerTick(h)

Spec == Init /\ [][Next]_vars

\* A page left alone after loading: start-up, then nothing but the ticks of
\* the carousel's interval.
AutoplayNext ==
    \/ RespectReducedMotion
    \/ Construct
    \/ \E h \in 1 .. MaxHandles : AutoTick(h)

\* Start-up is straight-line code and the event loop runs the callback of a
\* live interval every CONFIG.testimonialInterval milliseconds: whatever step
\* of such a page is possible is taken.
AutoplaySpec ==
    /\ Init
    /\ [][AutoplayNext]_vars
    /\ WF_vars(AutoplayNext)

(* ---------------------------------------------------------------------- *)
(* NavigationManager, ModalManager and FormManager as functions on the     *)
(* page's state                                                            *)
(* ---------------------------------------------------------------------- *)

\* The state the page's handlers read or write.
Page ==
    [ isMobileMenuOpen |-> isMobileMenuOpen,
      navActive        |-> navActive,
      bodyOverflow     |-> bodyOverflow,
      modalsShown      |-> modalsShown,
      activeModal      |-> activeModal,
      isFormSubmitting |-> isFormSubmitting,
      completions      |-> completions,
      btnDisabled      |-> btnDisabled,
      innerWidth       |-> innerWidth,
      timeout          |-> timeout,
      pendingTimeouts  |-> pendingTimeouts,
      nextTimeoutId    |-> nextTimeoutId,
      burst            |-> burst ]

\* toggleMobileMenu()
ToggleMobileMenu(p) ==
    [ p EXCEPT !.isMobileMenuOpen = ~ @,
               !.navActive = ~ @,
               !.bodyOverflow = IF ~ p.isMobileMenuOpen THEN "hidden" ELSE "" ]

\* closeMobileMenu()
CloseMobileMenu(p) ==
    [ p EXCEPT !.isMobileMenuOpen = FALSE,
               !.navActive = FALSE,
               !.bodyOverflow = "" ]

\* The click listener handleMobileMenu puts on document; inNavbar is
\* this.navbar.contains(e.target).
DocumentClick(p, inNavbar) ==
    IF ~ inNavbar /\ p.isMobileMenuOpen THEN CloseMobileMenu(p) ELSE p

\* The keydown listener handleMobileMenu puts on document, for key Escape.
NavKeydown(p) ==
    IF p.isMobileMenuOpen THEN CloseMobileMenu(p) ELSE p

\* The click listener of a .nav-link; hasTarget: the href is an anchor and
\* the element it names exists.
NavLinkListener(p, hasTarget) ==
    LET p1 == IF hasTarget THEN CloseMobileMenu(p) ELSE p
    IN  IF p1.isMobileMenuOpen THEN CloseMobileMenu(p1) ELSE p1

\* handleResize()
HandleResize(p) ==
    IF p.innerWidth >= DesktopWidth /\ p.isMobileMenuOpen
    THEN CloseMobileMenu(p)
    ELSE p

\* openModal(modalId), for the id of a modal of the page.
OpenModal(p, m) ==
    [ p EXCEPT !.modalsShown = @ \cup {m},
               !.bodyOverflow = "hidden",
               !.activeModal = m ]

\* closeModal(modal)
CloseModal(p, m) ==
    IF m = NoModal THEN p
    ELSE [ p EXCEPT !.modalsShown = @ \ {m},
                    !.bodyOverflow = "",
                    !.activeModal = NoModal ]

\* The keydown listener setupEventListeners puts on document, for key Escape.
ModalKeydown(p) ==
    IF p.activeModal # NoModal THEN CloseModal(p, p.activeModal) ELSE p

\* executedFunction of debounce without the clearTimeout before setTimeout.
ExecutedFunctionNoClear(p, args) ==
    [ p EXCEPT !.pendingTimeouts = @ \cup { [ id |-> p.nextTimeoutId, args |-> args ] },
               !.timeout = p.nextTimeoutId,
               !.nextTimeoutId = @ + 1,
               !.burst = IF p.pendingTimeouts = {}
                         THEN [ len |-> 1, runs |-> 0, first |-> args, args |-> args ]
                         ELSE [ @ EXCEPT !.len = @ + 1, !.args = args ] ]

\* executedFunction(...args) of debounce: the timeout the closure holds is
\* cleared and a new one is set, which carries the arguments of this call.
\* burst records the run of calls that each found a timeout pending: their
\* number, the arguments of the first and of the last, and the runs of func.
ExecutedFunction(p, args) ==
    [ p EXCEPT !.pendingTimeouts =
                   { t \in @ : t.id # p.timeout } \cup
                   { [ id |-> p.nextTimeoutId, args |-> args ] },
               !.timeout = p.nextTimeoutId,
               !.nextTimeoutId = @ + 1,
               !.burst = IF p.pendingTimeouts = {}
                         THEN [ len |-> 1, runs |-> 0, first |-> args, args |-> args ]
                         ELSE [ @ EXCEPT !.len = @ + 1, !.args = args ] ]

\* later() of debounce, run for the timeout t: clearTimeout(timeout), then
\* func(...args), which here is handleResize().
Later(p, t) ==
    HandleResize(
        [ p EXCEPT !.pendingTimeouts = { u \in @ : u.id # t.id /\ u.id # p.timeout },
                   !.burst = [ @ EXCEPT !.runs = @ + 1 ] ])

\* validateField(field): the value it returns.
ValidateField(f) ==
    LET blank == f.value = ""
    IN  /\ ~ (f.required /\ blank)
        /\ ~ (f.type = "email" /\ ~ blank /\ f.value # "ok")
        /\ ~ (f.type = "tel" /\ ~ blank /\ f.value # "ok")

\* validateForm(form): the controls with the required attribute are validated.
ValidateForm(fields) ==
    \A i \in 1 .. Len(fields) : fields[i].required => ValidateField(fields[i])

\* handleFormSubmission without the isFormSubmitting guard.
HandleFormSubmissionNoGuard(p, form, fields) ==
    IF ~ ValidateForm(fields) THEN p
    ELSE [ p EXCEPT !.isFormSubmitting = TRUE,
                    !.btnDisabled = @ \cup {form},
                    !.completions = Append(@, form) ]

\* handleFormSubmission(form)
HandleFormSubmission(p, form, fields) ==
    IF p.isFormSubmitting THEN p
    ELSE IF ~ ValidateForm(fields) THEN p
    ELSE [ p EXCEPT !.isFormSubmitting = TRUE,
                    !.btnDisabled = @ \cup {form},
                    !.completions = Append(@, form) ]

\* handleFormSuccess(form)
HandleFormSuccess(p) == OpenModal(p, "successModal")

\* The sequence q without its i-th element.
Without(q, i) == SubSeq(q, 1, i - 1) \o SubSeq(q, i + 1, Len(q))

\* The timeout callback of handleFormSubmission that leaves the flag set.
SubmissionDoneKeepsFlag(p, i) ==
    [ HandleFormSuccess(p) EXCEPT !.btnDisabled = @ \ { p.completions[i] },
                                  !.completions = Without(@, i) ]

\* The timeout callback of handleFormSubmission, for the i-th pending one.
SubmissionDone(p, i) ==
    [ HandleFormSuccess(p) EXCEPT !.isFormSubmitting = FALSE,
                                  !.btnDisabled = @ \ { p.completions[i] },
                                  !.completions = Without(@, i) ]

(* ---------------------------------------------------------------------- *)
(* A page without a carousel: the events of its navigation, modals and     *)
(* forms                                                                   *)
(* ---------------------------------------------------------------------- *)

\* initializeComponents has run on a page that has no .testimonials-slider.
NoCarousel ==
    /\ pc = "ready"
    /\ reducedMotion = FALSE
    /\ configAutoplay = TRUE
    /\ numCards = 0 /\ numDots = 0
    /\ cardsActive = {} /\ dotsActive = {}
    /\ currentIndex = 0
    /\ isAutoplay = FALSE
    /\ autoplayTimer = Null
    /\ liveTimers = {}
    /\ nextHandle = 1
    /\ listening = FALSE
    /\ hovering = FALSE
    /\ touchStartX = 0
    /\ onlyManual = FALSE
    /\ last = NoOp

PageInit ==
    /\ NoCarousel
    /\ PageStart /\ innerWidth \in Widths
    /\ scrollY = 0 /\ faqActive = {} /\ ScrollStart

\* The end of a page handler that ran from Page to p.
PageCommit(op, arg, p, valid, busy) ==
    /\ isMobileMenuOpen' = p.isMobileMenuOpen
    /\ navActive' = p.navActive
    /\ bodyOverflow' = p.bodyOverflow
    /\ modalsShown' = p.modalsShown
    /\ activeModal' = p.activeModal
    /\ isFormSubmitting' = p.isFormSubmitting
    /\ completions' = p.completions
    /\ btnDisabled' = p.btnDisabled
    /\ innerWidth' = p.innerWidth
    /\ timeout' = p.timeout
    /\ pendingTimeouts' = p.pendingTimeouts
    /\ nextTimeoutId' = p.nextTimeoutId
    /\ burst' = p.burst
    /\ pageLast' = [ op |-> op, arg |-> arg, valid |-> valid, busy |-> busy ]
    /\ UNCHANGED << carouselVars, scrollVars >>

\* click on #nav-toggle, which is inside #navbar
NavToggleClick ==
    \E p \in { DocumentClick(ToggleMobileMenu(Page), TRUE) } :
        PageCommit("navToggle", 0, p, FALSE, FALSE)

\* click on an element outside #navbar that has no listener of its own
OutsideClick ==
    \E p \in { DocumentClick(Page, FALSE) } :
        PageCommit("outsideClick", 0, p, FALSE, FALSE)

\* click on a .nav-link of #navbar
NavLinkClick(hasTarget) ==
    \E p \in { DocumentClick(NavLinkListener(Page, hasTarget), TRUE) } :
        PageCommit("navLink", IF hasTarget THEN 1 ELSE 0, p, FALSE, FALSE)

\* keydown of Escape: the listener of NavigationManager, registered first,
\* then the listener of ModalManager
Escape ==
    \E p \in { ModalKeydown(NavKeydown(Page)) } :
        PageCommit("escape", 0, p, FALSE, FALSE)

\* click on a product's quick-view button, outside #navbar: quickView(...)
\* and then the click listener of document
QuickViewClick ==
    \E p \in { DocumentClick(OpenModal(Page, "quickViewModal"), FALSE) } :
        PageCommit("quickView", 0, p, FALSE, FALSE)

\* click on the backdrop or on the close button of a shown modal (the
\* listeners of setupEventListeners, closeQuickView, closeSuccessModal), and
\* then the click listener of document
ModalCloseClick(m) ==
    /\ m \in modalsShown
    /\ \E p \in { DocumentClick(CloseModal(Page, m), FALSE) } :
           PageCommit("modalClose", 0, p, FALSE, FALSE)

\* resize of the window to width w: the debounced listener is called with
\* the event, which the model names by w
Resize(w) ==
    /\ nextTimeoutId <= MaxResizes
    /\ \E p \in { ExecutedFunction([ Page EXCEPT !.innerWidth = w ], w) } :
           PageCommit("resize", w, p, FALSE, FALSE)

\* a timeout of debounce expires
ResizeTimeout(t) ==
    /\ t \in pendingTimeouts
    /\ \E p \in { Later(Page, t) } :
           PageCommit("later", t.args, p, FALSE, FALSE)

\* submit event of a form whose controls hold c
Submit(form, c) ==
    /\ Len(completions) < MaxPending
    /\ \E p \in { HandleFormSubmission(Page, form, c) } :
           PageCommit("submit", form, p, ValidateForm(c), isFormSubmitting)

\* the timeout of an accepted submission expires
SubmitTimeout(i) ==
    /\ i \in 1 .. Len(completions)
    /\ \E p \in { SubmissionDone(Page, i) } :
           PageCommit("submitted", completions[i], p, FALSE, FALSE)

SubmitTimeouts == \E i \in 1 .. MaxPending : SubmitTimeout(i)

PageNext ==
    \/ NavToggleClick
    \/ OutsideClick
    \/ \E hasTarget \in BOOLEAN : NavLinkClick(hasTarget)
    \/ Escape
    \/ QuickViewClick
    \/ \E m \in Modals : ModalCloseClick(m)
    \/ \E w \in Widths : Resize(w)
    \/ \E t \in pendingTimeouts : ResizeTimeout(t)
    \/ \E form \in Forms, c \in FormContents : Submit(form, c)
    \/ SubmitTimeouts

PageSpec == PageInit /\ [][PageNext]_vars

\* The event loop runs the callback of every timeout that is set.
PageFairSpec == PageSpec /\ WF_vars(SubmitTimeouts)

(* ---------------------------------------------------------------------- *)
(* Scrolling: the throttled scroll listener of NavigationManager and the   *)
(* FAQ accordion, which scrolls to the item it opens                       *)
(* ---------------------------------------------------------------------- *)

\* handleScroll(): whether the navbar carries 'scrolled' afterwards.
HandleScroll(y) == y > ScrollThreshold

\* The function throttle returns, called with the window at offset y.
Throttled(s, y) ==
    IF ~ s.inThrottle
    THEN [ navbarScrolled |-> HandleScroll(y), inThrottle |-> TRUE ]
    ELSE s

\* toggleFAQ without the loop that removes 'active' from every item.
ToggleFAQNoCloseOthers(active, item) ==
    IF item \in active THEN active \ {item} ELSE active \cup {item}

\* toggleFAQ(item): the items that carry 'active' afterwards.
ToggleFAQ(active, item) ==
    LET isActive == item \in active
        closed   == {}
    IN  IF ~ isActive THEN closed \cup {item} ELSE closed

ScrollInit ==
    /\ NoCarousel
    /\ PageStart /\ innerWidth = DesktopWidth
    /\ scrollY \in ScrollYs
    /\ faqActive \in SUBSET Faqs
    /\ ScrollStart

ScrollFrame == UNCHANGED << carouselVars, pageVars >>

\* The window moves to offset y and the scroll event is dispatched.
ScrollTo(y) ==
    /\ scrollY' = y
    /\ \E s \in { Throttled([ navbarScrolled |-> navbarScrolled,
                              inThrottle |-> inThrottle ], y) } :
           /\ navbarScrolled' = s.navbarScrolled
           /\ inThrottle' = s.inThrottle

\* the user scrolls to offset y
Scroll(y) ==
    /\ y # scrollY
    /\ ScrollTo(y)
    /\ UNCHANGED << faqActive, faqScrolls, faqLast >>
    /\ ScrollFrame

\* the timeout throttle sets expires
ThrottleTimeout ==
    /\ inThrottle
    /\ inThrottle' = FALSE
    /\ UNCHANGED << scrollY, navbarScrolled, faqActive, faqScrolls, faqLast >>
    /\ ScrollFrame

\* click on the .faq-question of an item; inViewport is isInViewport(item)
FaqClick(item, inViewport) ==
    /\ faqActive' = ToggleFAQ(faqActive, item)
    /\ faqScrolls' = IF item \notin faqActive /\ ~ inViewport
                     THEN faqScrolls \cup {item}
                     ELSE faqScrolls
    /\ faqLast' = [ op |-> "toggle", item |-> item,
                    wasActive |-> (item \in faqActive), before |-> faqActive ]
    /\ UNCHANGED << scrollY, navbarScrolled, inThrottle >>
    /\ ScrollFrame

\* the timeout of toggleFAQ expires: smoothScrollTo(item, 100) moves the
\* window to the offset y of the item, if it is not there already
FaqScrollTimeout(item, y) ==
    /\ item \in faqScrolls
    /\ faqScrolls' = faqScrolls \ {item}
    /\ IF y # scrollY
       THEN ScrollTo(y)
       ELSE UNCHANGED << scrollY, navbarScrolled, inThrottle >>
    /\ UNCHANGED << faqActive, faqLast >>
    /\ ScrollFrame

ScrollNext ==
    \/ \E y \in ScrollYs : Scroll(y)
    \/ ThrottleTimeout
    \/ \E item \in Faqs, inViewport \in BOOLEAN : FaqClick(item, inViewport)
    \/ \E item \in Faqs, y \in ScrollYs : FaqScrollTimeout(item, y)

ScrollSpec == ScrollInit /\ [][ScrollNext]_vars

(* ---------------------------------------------------------------------- *)
(* Properties                                                              *)
(* ---------------------------------------------------------------------- *)

Ready == pc = "ready"

\* The last handler made exactly one call, goTo(k), and nothing else.
LastWasGoTo(k) == last.calls = << << "goTo", k >> >>
LastWasNext == last.calls = << << "next", 0 >> >>
LastWasPrevious == last.calls = << << "previous", 0 >> >>

\* The integers a handler of the model can pass to goToTestimonial.
GoToValues == (0 - 1) .. (MaxCards + 1)

\* The last handler left the cards' and the dots' 'active' marks as they were.
VisibleUnchanged ==
    /\ cardsActive = last.cardsBefore
    /\ dotsActive = last.dotsBefore

\* The last handler left the carousel's timer and the page's intervals as they were.
TimersUnchanged ==
    /\ autoplayTimer = last.timerBefore
    /\ liveTimers = last.liveBefore

\* C1: in every reachable state at most one interval created by the carousel
\* is live, whatever the order of construction, navigation, swipes, hover
\* enter, hover leave and timer ticks.
C1_AtMostOneLiveTimer == Cardinality(liveTimers) <= 1

\* C2: once the carousel is constructed over N > 0 cards, currentIndex is an
\* integer of 0 .. N-1 after every handler, invalid goTo arguments included.
C2_IndexInRange ==
    (Ready /\ numCards > 0) => currentIndex \in 0 .. (numCards - 1)

C2_Witness ==
    /\ Ready /\ numCards = MaxCards
    /\ last.op = "currentTestimonial" /\ ~ValidIndex(last.arg - 1)
    /\ currentIndex = numCards - 1

\* C3: with N > 0 cards and as many dots, after construction and after every
\* handler the cards marked active are exactly {currentIndex} and so are the
\* dots marked active.
C3_ExactlyOneActive ==
    (Ready /\ numCards > 0 /\ numDots = numCards) =>
        /\ cardsActive = {currentIndex}
        /\ dotsActive = {currentIndex}

C3_Witness ==
    /\ Ready /\ numCards = MaxCards /\ numDots = numCards
    /\ last.op = "tick" /\ last.renders = << 2 >>
    /\ last.cardsBefore = {1} /\ cardsActive = {2} /\ dotsActive = {2}

\* C4: with N > 0 cards, a handler that calls next() from index i leaves
\* currentIndex = (i + 1) mod N, and one that calls previous() leaves
\* currentIndex = (i - 1 + N) mod N.
C4_NextPreviousWrap ==
    (Ready /\ numCards > 0) =>
        /\ LastWasNext => currentIndex = (last.from + 1) % numCards
        /\ LastWasPrevious =>
               currentIndex = (last.from - 1 + numCards) % numCards

C4_Witness ==
    /\ Ready /\ numCards = MaxCards
    /\ LastWasNext /\ last.from = numCards - 1 /\ currentIndex = 0

\* C5: goTo(index) with an integer index outside 0 .. N-1 leaves currentIndex
\* as it was, renders nothing and changes no 'active' mark.
C5_InvalidGoToNoRender ==
    \A k \in GoToValues :
        (Ready /\ LastWasGoTo(k) /\ ~ValidIndex(k)) =>
            /\ currentIndex = last.from
            /\ last.renders = << >>
            /\ VisibleUnchanged

C5_Witness ==
    /\ Ready /\ numCards = MaxCards /\ numDots = numCards
    /\ LastWasGoTo(numCards) /\ last.from = 1 /\ currentIndex = 1
    /\ cardsActive = {1}

\* C6: goTo(index) with an integer index outside 0 .. N-1 leaves the autoplay
\* timer as it was: the live interval is not replaced and none is created
\* (stated for N > 0, where the listeners and the first timer exist).
C6_InvalidGoToKeepsTimer ==
    \A k \in GoToValues :
        (Ready /\ numCards > 0 /\ LastWasGoTo(k) /\ ~ValidIndex(k)) =>
            TimersUnchanged

\* C7: goTo(k) with k in 0 .. N-1 renders k and leaves currentIndex = k, also
\* when the call before it was goTo(k) too, and then the 'active' marks after
\* the second call are those after the first.
C7_GoToIdempotent ==
    \A k \in GoToValues :
        (Ready /\ LastWasGoTo(k) /\ ValidIndex(k)) =>
            /\ currentIndex = k
            /\ last.renders = << k >>
            /\ last.repeat => (last.from = k /\ VisibleUnchanged)

C7_Witness ==
    /\ Ready /\ numCards = MaxCards /\ numDots = numCards
    /\ LastWasGoTo(2) /\ last.repeat
    /\ currentIndex = 2 /\ cardsActive = {2} /\ dotsActive = {2}

\* C8: a swipe with |startX - endX| <= 50 calls nothing and changes neither
\* currentIndex nor an 'active' mark nor the autoplay timer.
C8_ShortSwipeNoOp ==
    (Ready /\ last.op = "touchend" /\ Abs(last.arg) <= SwipeThreshold) =>
        /\ last.calls = << >>
        /\ last.renders = << >>
        /\ currentIndex = last.from
        /\ VisibleUnchanged
        /\ TimersUnchanged

C8_Witness ==
    /\ Ready /\ numCards = MaxCards /\ isAutoplay
    /\ last.op = "touchend" /\ last.arg = SwipeThreshold
    /\ autoplayTimer \in liveTimers /\ currentIndex = 1

\* C9: a swipe with diff = startX - endX calls next() once and nothing else
\* when diff > 50, and previous() once and nothing else when diff < -50.
C9_SwipeDirection ==
    (Ready /\ last.op = "touchend") =>
        /\ last.arg > SwipeThreshold => LastWasNext
        /\ last.arg < 0 - SwipeThreshold => LastWasPrevious

C9_Witness ==
    /\ Ready /\ numCards = MaxCards
    /\ last.op = "touchend" /\ last.arg = 0 - (SwipeThreshold + 1)
    /\ LastWasPrevious /\ last.from = 0 /\ currentIndex = numCards - 1

\* C10: with autoplay on and N > 1, as long as only next(), previous() and
\* goTo(valid) have run since construction, exactly one interval is live, it
\* is the one the carousel holds, and each call has cleared the one before.
C10_ManualKeepsOneTimer ==
    (Ready /\ isAutoplay /\ numCards > 1 /\ onlyManual) =>
        /\ Cardinality(liveTimers) = 1
        /\ autoplayTimer \in liveTimers
        /\ last.op # "construct" =>
               (last.timerBefore # Null /\ last.timerBefore \notin liveTimers)

C10_Witness ==
    /\ Ready /\ isAutoplay /\ numCards > 1 /\ onlyManual
    /\ LastWasNext /\ last.repeat
    /\ liveTimers = {3} /\ autoplayTimer = 3

\* The last handler was a manual navigation: a click on a button or a dot, or
\* a call of a global entry point.
LastWasManual ==
    last.op \in { "clickNext", "clickPrev", "clickDot", "changeTestimonial",
                  "currentTestimonial" }

\* C11: with N = 0 cards the carousel is inert for good: construction and
\* every later operation, the global entry points included, leave
\* currentIndex at its initial index value and create no interval.
C11_NoCardsInert ==
    (Ready /\ numCards = 0) =>
        /\ currentIndex = 0
        /\ autoplayTimer = Null
        /\ liveTimers = {}
        /\ last.renders = << >>

\* C12: with N = 1 card no interval is ever live, also with autoplay on:
\* not after construction, not after navigation, not after hover leave.
C12_SingleCardNoAutoplay ==
    (Ready /\ numCards = 1) => (liveTimers = {} /\ autoplayTimer = Null)

\* C13: with N = 1 card every operation leaves currentIndex at 0 and the
\* only render of a run is the one of construction.
C13_SingleCardOneRender ==
    (Ready /\ numCards = 1) =>
        /\ currentIndex = 0
        /\ last.op # "construct" => last.renders = << >>

\* C15: hover leave while an interval is held creates no interval and does
\* not replace the held one (stated for N > 1, where autoplay is meant to run).
C15_ResumeWhileRunningNoOp ==
    (Ready /\ numCards > 1 /\ last.op = "mouseleave"
           /\ last.timerBefore # Null) =>
        TimersUnchanged

\* C16: right after hover enter no interval is live (so none can tick), and
\* hover enter with no interval held changes nothing (stated for N > 1, where
\* autoplay is meant to run).
C16_PauseStopsTimers ==
    (Ready /\ numCards > 1 /\ last.op = "mouseenter") =>
        /\ liveTimers = {}
        /\ autoplayTimer = Null
        /\ last.timerBefore = Null => TimersUnchanged

\* C17: with autoplay switched off by the configuration no handler ever
\* creates an interval, so no tick ever runs and the index changes through
\* manual operations only.
C17_DisabledAutoplayNoTimer ==
    (Ready /\ ~isAutoplay) =>
        /\ liveTimers = {}
        /\ autoplayTimer = Null
        /\ nextHandle = 1
        /\ last.op # "tick"

C17_Witness ==
    /\ Ready /\ ~isAutoplay /\ numCards = MaxCards
    /\ last.op = "mouseleave" /\ currentIndex = 2
    /\ liveTimers = {}

\* C18: right after construction over N > 1 cards currentIndex = 0, card 0
\* is the only active card and dot 0 the only active dot, and exactly one
\* interval is live when autoplay is on and none when it is off.
C18_AfterInitialize ==
    (Ready /\ last.op = "construct" /\ numCards > 1) =>
        /\ currentIndex = 0
        /\ cardsActive = {0}
        /\ numDots > 0 => dotsActive = {0}
        /\ last.renders = << 0 >>
        /\ IF isAutoplay
           THEN liveTimers = {autoplayTimer} /\ autoplayTimer # Null
           ELSE liveTimers = {} /\ autoplayTimer = Null

C18_Witness ==
    /\ Ready /\ last.op = "construct"
    /\ numCards = MaxCards /\ numDots = numCards /\ isAutoplay
    /\ last.cardsBefore = {1, 2} /\ last.dotsBefore = {}
    /\ cardsActive = {0} /\ dotsActive = {0} /\ liveTimers = {1}

\* C19 (as stated): a tick advances currentIndex to (i + 1) mod N and renders
\* it, and leaves the timers alone: the interval that ticked is live
\* afterwards and the carousel holds the handle it held before (stated for
\* N > 1, where autoplay is meant to run).
C19_TickKeepsTimer ==
    (Ready /\ numCards > 1 /\ last.op = "tick") =>
        /\ currentIndex = (last.from + 1) % numCards
        /\ last.renders = << currentIndex >>
        /\ last.arg \in liveTimers
        /\ TimersUnchanged

\* C19 (amended): a tick advances currentIndex to (i + 1) mod N and renders
\* it, and, being a call of next(), clears the interval the carousel holds
\* and starts a new one: the held handle is new, the handle held before is
\* no longer live, and every other interval is as it was.
C19_TickResetsTimer ==
    (Ready /\ numCards > 0 /\ last.op = "tick") =>
        /\ LastWasNext
        /\ currentIndex = (last.from + 1) % numCards
        /\ last.renders = << currentIndex >>
        /\ autoplayTimer \notin last.liveBefore
        /\ autoplayTimer # Null
        /\ liveTimers =
               (last.liveBefore \ {last.timerBefore}) \cup {autoplayTimer}

C19_Witness ==
    /\ Ready /\ numCards = MaxCards /\ last.op = "tick"
    /\ last.arg = 1 /\ last.timerBefore = 1 /\ last.liveBefore = {1}
    /\ autoplayTimer = 2 /\ liveTimers = {2}
    /\ last.from = 0 /\ currentIndex = 1

\* C20: with autoplay on and N > 1, right after a manual next(), previous()
\* or goTo(valid), whatever the timers were before (hover-paused included),
\* exactly one interval is live: a new one, held by the carousel.
C20_ManualNavigationOneFreshTimer ==
    \A k \in GoToValues :
        (Ready /\ isAutoplay /\ numCards > 1 /\ LastWasManual
               /\ (LastWasNext \/ LastWasPrevious
                     \/ (LastWasGoTo(k) /\ ValidIndex(k)))) =>
            /\ autoplayTimer # Null
            /\ autoplayTimer \notin last.liveBefore
            /\ liveTimers = {autoplayTimer}

\* C21: with autoplay on, N > 1 and no input after construction, under fair
\* delivery of the ticks every index of 0 .. N-1 is the active one again and
\* again, and every step after construction advances the index by exactly
\* one in the cycle 0, 1, ..., N-1, 0, ...  (The preference, N and i do not
\* change in a run, so the condition stands inside the []<>.)
C21_AutoplayCycles ==
    /\ \A i \in 0 .. (MaxCards - 1) :
           []<>((~reducedMotion /\ numCards > 1 /\ i < numCards) =>
                    (Ready /\ currentIndex = i /\ cardsActive = {i}))
    /\ [][ (Ready /\ numCards > 1) =>
               /\ currentIndex' = (currentIndex + 1) % numCards
               /\ cardsActive' = {currentIndex'} ]_vars

C21_Witness ==
    /\ Ready /\ isAutoplay /\ numCards = MaxCards
    /\ last.op = "tick" /\ last.from = numCards - 1
    /\ currentIndex = 0 /\ cardsActive = {0}
    /\ autoplayTimer \in liveTimers

\* C22: when the reduced-motion preference is set at page load the autoplay
\* flag of the configuration is cleared before the carousel is constructed,
\* the carousel captures isAutoplay = false, and no interval is ever live.
C22_ReducedMotionNoAutoplay ==
    reducedMotion =>
        /\ pc # "load" => ~configAutoplay
        /\ Ready => ~isAutoplay
        /\ liveTimers = {}
        /\ autoplayTimer = Null

C22_Witness ==
    /\ reducedMotion /\ Ready /\ numCards = MaxCards
    /\ LastWasNext /\ last.repeat /\ currentIndex = 2
    /\ liveTimers = {}

\* C23: activeModal is null exactly when no modal carries 'show', and every
\* shown modal is the active one, which is the one Escape closes.
C23_ActiveModalTracksShown ==
    /\ (activeModal = NoModal) <=> (modalsShown = {})
    /\ \A m \in modalsShown : m = activeModal

\* C24: while a modal is shown or the mobile menu is open, the body's overflow
\* is 'hidden'.
C24_ScrollLockedWhileOpen ==
    (modalsShown # {} \/ isMobileMenuOpen) => bodyOverflow = "hidden"

\* C25: at most one completion is pending, and one is pending exactly while
\* isFormSubmitting is set; a submit event that arrives while the flag is set
\* schedules nothing, and one whose form fails validation leaves the flag
\* clear and schedules nothing.
C25_OneSubmissionInFlight ==
    /\ Len(completions) <= 1
    /\ isFormSubmitting <=> (completions # << >>)
    /\ btnDisabled = { completions[i] : i \in 1 .. Len(completions) }
    /\ (pageLast.op = "submit" /\ ~ pageLast.valid /\ ~ pageLast.busy) =>
           (~ isFormSubmitting /\ completions = << >>)

C25_Witness ==
    /\ pageLast.op = "submit" /\ pageLast.busy /\ pageLast.valid
    /\ isFormSubmitting
    /\ Len(completions) = 1 /\ completions[1] # pageLast.arg

\* C26: a submission in flight is eventually completed; the step that clears
\* isFormSubmitting is the timeout's callback, which shows the success modal,
\* leaves no completion pending and no submit button disabled; and a valid
\* submission that arrives when none is in flight is accepted.
C26_SubmissionCompletes ==
    /\ isFormSubmitting ~> ~ isFormSubmitting
    /\ [][ (isFormSubmitting /\ ~ isFormSubmitting') =>
               /\ pageLast'.op = "submitted"
               /\ Len(completions) = 1 /\ completions' = << >>
               /\ "successModal" \in modalsShown'
               /\ btnDisabled' = {} ]_vars
    /\ [] ((pageLast.op = "submit" /\ pageLast.valid /\ ~ pageLast.busy) =>
               /\ isFormSubmitting
               /\ completions = << pageLast.arg >>
               /\ pageLast.arg \in btnDisabled)

C26_Witness ==
    /\ pageLast.op = "submit" /\ pageLast.valid /\ ~ pageLast.busy
    /\ isFormSubmitting
    /\ "successModal" \in modalsShown

\* C27: after a toggleFAQ at most one item is active: the toggled item alone
\* if it was inactive, none if it was active.
C27_AtMostOneFaqActive ==
    faqLast.op = "toggle" =>
        /\ Cardinality(faqActive) <= 1
        /\ ~ faqLast.wasActive => faqActive = { faqLast.item }
        /\ faqLast.wasActive => faqActive = {}

C27_Witness ==
    /\ faqLast.op = "toggle" /\ ~ faqLast.wasActive
    /\ Cardinality(faqLast.before) >= 2
    /\ faqActive = { faqLast.item }

\* C28: when no throttle window is pending, the navbar carries 'scrolled'
\* exactly when the scroll offset exceeds the threshold.
C28_NavbarFollowsScroll ==
    ~ inThrottle => (navbarScrolled <=> (scrollY > ScrollThreshold))

\* C29: at most one timeout of debounce is pending, it is the one of the last
\* call and carries that call's arguments; func has not run while a timeout
\* is pending, has run exactly once when the burst's timeout has expired, and
\* ran with the arguments of the burst's last call.
C29_DebounceOneRunPerBurst ==
    /\ Cardinality(pendingTimeouts) <= 1
    /\ \A t \in pendingTimeouts : t.id = timeout /\ t.args = burst.args
    /\ pendingTimeouts # {} => burst.runs = 0
    /\ (pendingTimeouts = {} /\ burst.len > 0) => burst.runs = 1
    /\ pageLast.op = "later" => pageLast.arg = burst.args

C29_Witness ==
    /\ pageLast.op = "later"
    /\ burst.len >= 2 /\ burst.first # burst.args
    /\ burst.runs = 1
    /\ pendingTimeouts = {}

=============================================================================
